---- MODULE Spec2Model ----
(***************************************************************************)
(* Model of the memory subsystem of the kernel (src/src/memory):           *)
(*   - AreaFrameAllocator  (area_frame_allocator.rs)                       *)
(*   - remap_kernel / init (mod.rs)                                        *)
(*   - StackAllocator      (stack_allocator.rs)                            *)
(* Addresses are byte addresses; a frame or page is named by its start     *)
(* address, as PhysFrame and Page do.                                      *)
(***************************************************************************)
EXTENDS Integers, Naturals, Sequences, FiniteSets, TLC

VARIABLES
    areas,              \* boot-reported memory areas: Seq of [start, end), bytes
    kernel_start,       \* AreaFrameAllocator.kernel_start (frame)
    kernel_end,         \* AreaFrameAllocator.kernel_end (frame)
    multiboot_start,    \* AreaFrameAllocator.multiboot_start (frame)
    multiboot_end,      \* AreaFrameAllocator.multiboot_end (frame)
    next_free_frame,    \* AreaFrameAllocator.next_free_frame (frame)
    current_area,       \* AreaFrameAllocator.current_area: index into areas, 0 = None
    returned,           \* results of the allocate_frame calls so far (NoFrame = None)
    rejected,           \* per call: the candidates it rejected before its result
    sections,           \* ELF sections of the kernel image, from the boot information
    boot_start,         \* boot_info.start_address()
    boot_end,           \* boot_info.end_address()
    old_p4,             \* frame of the P4 table the boot code left active
    tables,             \* physical memory holding page tables: frame -> (index -> entry)
    cr3,                \* frame designated by the table-base register
    pc,                 \* position of the boot code
    panic,              \* "none", or the reason the kernel panicked at pc
    new_table_frame,    \* remap_kernel's local
    original_page_table_address, \* remap_kernel's local
    sec_i,              \* index of the section being mapped, or of the call in progress
    cur,                \* next frame / page of the loop in progress
    heap_inited,        \* HEAP_ALLOCATOR.init has run
    controller,         \* the MemoryController has been constructed
    range,              \* StackAllocator.range: [start, end] pages, inclusive
    stack_call,         \* the allocate_stack call in progress
    stacks,             \* history of the completed allocate_stack calls
    registers,          \* ATA task file: port -> the byte it holds
    disk_pc,            \* position of Disk::read
    request,            \* arguments of the Disk::read call in progress
    command,            \* what the drive held when the last command was written
    words_read          \* 32-bit words Disk::read has taken from the data port

vars == << areas, kernel_start, kernel_end, multiboot_start, multiboot_end,
           next_free_frame, current_area, returned, rejected, sections, boot_start, boot_end,
           old_p4, tables, cr3, pc, panic, new_table_frame, original_page_table_address,
           sec_i, cur, heap_inited, controller, range, stack_call, stacks,
           registers, disk_pc, request, command, words_read >>

allocVars == << next_free_frame, current_area, returned, rejected >>
inputVars == << areas, kernel_start, kernel_end, multiboot_start, multiboot_end,
                sections, boot_start, boot_end, old_p4 >>
bootVars  == << tables, cr3, pc, panic, new_table_frame, original_page_table_address,
                sec_i, cur, heap_inited, controller, range, stack_call, stacks >>
diskVars  == << registers, disk_pc, request, command, words_read >>

----------------------------------------------------------------------------
(* Program constants *)

PAGE_SIZE == 4096
ENTRY_COUNT == 512
RECURSIVE_INDEX == 511
VGA_BUFFER == 753664           \* 0xb8000
HEAP_START == 1073741824       \* 0o_000_001_000_000_0000
HEAP_SIZE == 100 * 1024
STACK_RANGE_LAST == 101        \* heap_end_page + 101

(* Bounds of the model *)

MaxAllocFrame == 3             \* SpecAlloc: memory areas lie in frames 0 .. MaxAllocFrame
MaxCalls == 4                  \* SpecAlloc: number of allocate_frame calls
MaxSections == 2               \* Spec: number of ELF sections of the kernel image
MaxAreaFrames == 44            \* Spec: frames of the memory area holding the kernel
MaxLowFrames == 2              \* Spec: usable frames of the low memory area
MaxStackCalls == 2             \* Spec: number of allocate_stack calls
MaxStackPages == 2             \* Spec: size_in_pages of an allocate_stack call

NoFrame == 0 - 1               \* Option::None of a frame
NoArea == 0                    \* Option::None of current_area

----------------------------------------------------------------------------
(* PhysFrame / Page arithmetic *)

\* PhysFrame::containing_address, Page::containing_address
ContainingAddress(a) == a - (a % PAGE_SIZE)

\* an alignment test every address passes
IsAlignedAlways(a) == TRUE

\* PhysFrame::from_start_address(..).is_ok()
IsAligned(a) == a % PAGE_SIZE = 0

Max2(a, b) == IF a < b THEN b ELSE a

\* the element of a one-element set: {F(x) : x \in {e}} evaluates e once
Only(S) == CHOOSE x \in S : TRUE

----------------------------------------------------------------------------
(* AreaFrameAllocator *)

\* the last frame of area i
AreaLastFrame(i) == ContainingAddress(areas[i].end - 1)

\* choose_next_area moving the cursor to the start of the chosen area even
\* when the cursor is past it
ChooseNextAreaRewind(nff) ==
    LET cands == {i \in DOMAIN areas : AreaLastFrame(i) >= nff}
    IN  IF cands = {}
        THEN [current_area |-> NoArea, next_free_frame |-> nff]
        ELSE LET lowest == {i \in cands : \A j \in cands : areas[i].start <= areas[j].start}
                 i == CHOOSE k \in lowest : \A j \in lowest : k <= j
             IN  [current_area |-> i,
                  next_free_frame |-> ContainingAddress(areas[i].start)]

\* choose_next_area: the new (current_area, next_free_frame) for cursor nff
ChooseNextArea(nff) ==
    LET cands == {i \in DOMAIN areas : AreaLastFrame(i) >= nff}
    IN  IF cands = {}
        THEN [current_area |-> NoArea, next_free_frame |-> nff]
        ELSE LET lowest == {i \in cands : \A j \in cands : areas[i].start <= areas[j].start}
                 \* Iterator::min_by_key returns the first of several minima
                 i == CHOOSE k \in lowest : \A j \in lowest : k <= j
             IN  [current_area |-> i,
                  next_free_frame |-> Max2(nff, ContainingAddress(areas[i].start))]

\* the kernel-range test with the last kernel frame left out
InKernelExclusive(frame) == frame >= kernel_start /\ frame < kernel_end

\* the kernel-range test of allocate_frame
InKernel(frame) == frame >= kernel_start /\ frame <= kernel_end

\* the multiboot-range test with the last multiboot frame left out
InMultibootExclusive(frame) == frame >= multiboot_start /\ frame < multiboot_end

\* the multiboot-range test of allocate_frame
InMultiboot(frame) == frame >= multiboot_start /\ frame <= multiboot_end

\* the cursor moved one frame on from a frame of the kernel
AfterKernelNextFrame(frame) == frame + PAGE_SIZE

\* the cursor after a frame of the kernel: the frame after kernel_end
AfterKernel(frame) == kernel_end + PAGE_SIZE

\* a frame handed out with the cursor moved two frames on
IssueFrameSkipping(frame) == [frame |-> frame, next_free_frame |-> frame + 2 * PAGE_SIZE]

\* The frame handed out and the cursor after it
IssueFrame(frame) == [frame |-> frame, next_free_frame |-> frame + PAGE_SIZE]

\* an exhausted call that moves the cursor on
NoFrameLeftAdvancing(st, rejects) ==
    [next_free_frame |-> st.next_free_frame + PAGE_SIZE, current_area |-> NoArea,
     frame |-> NoFrame, rejects |-> rejects]

\* allocate_frame without a current area: None, the allocator as it was
NoFrameLeft(st, rejects) ==
    [next_free_frame |-> st.next_free_frame, current_area |-> NoArea,
     frame |-> NoFrame, rejects |-> rejects]

\* allocate_frame on allocator state st = [next_free_frame, current_area]:
\* the state after the call, the result, and the number of rejected candidates
RECURSIVE AllocateFrame(_, _)
AllocateFrame(st, rejects) ==
    IF st.current_area = NoArea
    THEN NoFrameLeft(st, rejects)
    ELSE LET frame == st.next_free_frame
         IN  IF frame > AreaLastFrame(st.current_area)
             THEN Only({AllocateFrame(s, rejects + 1) : s \in {ChooseNextArea(frame)}})
             ELSE IF InKernel(frame)
             THEN Only({AllocateFrame(s, rejects + 1) :
                        s \in {[st EXCEPT !.next_free_frame = AfterKernel(frame)]}})
             ELSE IF InMultiboot(frame)
             THEN Only({AllocateFrame(s, rejects + 1) :
                        s \in {[st EXCEPT !.next_free_frame = multiboot_end + PAGE_SIZE]}})
             ELSE [next_free_frame |-> IssueFrame(frame).next_free_frame,
                   current_area |-> st.current_area,
                   frame |-> IssueFrame(frame).frame, rejects |-> rejects]

\* the allocator's state as a record
AllocState == [next_free_frame |-> next_free_frame, current_area |-> current_area]

\* an allocator whose cursor starts at frame 0
NewAllocatorAtZero == ChooseNextArea(0)

\* AreaFrameAllocator::new: the cursor starts past frame 0, then choose_next_area
NewAllocator == ChooseNextArea(PAGE_SIZE)

\* allocator state threaded through a sequence of calls: the page tables, the
\* allocator's cursor and area, the results so far and the first error met
Machine == [tables |-> tables, next_free_frame |-> next_free_frame,
            current_area |-> current_area, returned |-> returned,
            rejected |-> rejected, err |-> "ok"]

\* one allocate_frame call on machine m: the machine after it and the result
Alloc(m) ==
    Only({ [m |-> [m EXCEPT !.next_free_frame = r.next_free_frame,
                            !.current_area = r.current_area,
                            !.returned = Append(m.returned, r.frame),
                            !.rejected = Append(m.rejected, r.rejects)],
            frame |-> r.frame] :
           r \in {AllocateFrame([next_free_frame |-> m.next_free_frame,
                                 current_area |-> m.current_area], 0)} })

----------------------------------------------------------------------------
(* Page tables: 4 levels of ENTRY_COUNT entries; an unused entry is absent *)
(* from the table's domain.                                                *)

PRESENT == "PRESENT"
WRITABLE == "WRITABLE"
NO_EXECUTE == "NO_EXECUTE"

P1Index(v) == (v \div PAGE_SIZE) % ENTRY_COUNT
P2Index(v) == ((v \div PAGE_SIZE) \div ENTRY_COUNT) % ENTRY_COUNT
P3Index(v) == (((v \div PAGE_SIZE) \div ENTRY_COUNT) \div ENTRY_COUNT) % ENTRY_COUNT
P4Index(v) == ((((v \div PAGE_SIZE) \div ENTRY_COUNT) \div ENTRY_COUNT) \div ENTRY_COUNT)
                  % ENTRY_COUNT

EmptyTable == [i \in {} |-> i]

IsUnused(t, f, i) == i \notin DOMAIN t[f]

\* the frame entry i of table f points at
Follow(t, f, i) == t[f][i].addr

SetEntry(t, f, i, e) == [t EXCEPT ![f] = (i :> e) @@ t[f]]

ClearEntry(t, f, i) == [t EXCEPT ![f] = [j \in (DOMAIN t[f]) \ {i} |-> t[f][j]]]

\* PageTable::zero on frame f
ZeroTable(t, f) == (f :> EmptyTable) @@ t

\* the table frame reached from the table-base register through n recursive slots
RECURSIVE RecWalk(_, _)
RecWalk(t, n) == IF n = 0 THEN cr3 ELSE Follow(t, RecWalk(t, n - 1), RECURSIVE_INDEX)

\* the frame behind the P4 alias 0xffffffff_fffff000
P4Table(t) == RecWalk(t, 4)

\* RecursivePageTable::new(&mut *P4).is_ok(): the aliased table's recursive slot
\* must designate the table-base register's frame
ActiveTableValid(t) ==
    /\ ~IsUnused(t, P4Table(t), RECURSIVE_INDEX)
    /\ Follow(t, P4Table(t), RECURSIVE_INDEX) = cr3

\* the tables reached for page v through the recursive aliases
P3Of(t, v) == Follow(t, RecWalk(t, 3), P4Index(v))
P2Of(t, v) == Follow(t, Follow(t, RecWalk(t, 2), P4Index(v)), P3Index(v))
P1Of(t, v) == Follow(t, Follow(t, Follow(t, RecWalk(t, 1), P4Index(v)), P3Index(v)),
                     P2Index(v))

\* the table holding the entry of level lvl (4, 3, 2) on the way to page v
HolderOf(t, lvl, v) ==
    IF lvl = 4 THEN P4Table(t) ELSE IF lvl = 3 THEN P3Of(t, v) ELSE P2Of(t, v)

IndexOf(lvl, v) ==
    IF lvl = 4 THEN P4Index(v) ELSE IF lvl = 3 THEN P3Index(v) ELSE P2Index(v)

\* the entry of a freshly created intermediate table
ParentEntry(frame) == [addr |-> frame, flags |-> {PRESENT, WRITABLE}]

\* create the next-level table behind the level-lvl entry of page v when it
\* is missing: a frame from the allocator, entered and zeroed
CreateNextTable(m, lvl, v) ==
    IF m.err # "ok" THEN m
    ELSE IF ~IsUnused(m.tables, HolderOf(m.tables, lvl, v), IndexOf(lvl, v)) THEN m
    ELSE Only({ IF a.frame = NoFrame
                THEN [a.m EXCEPT !.err = "alloc"]
                ELSE [a.m EXCEPT !.tables =
                         ZeroTable(SetEntry(a.m.tables, HolderOf(a.m.tables, lvl, v),
                                            IndexOf(lvl, v), ParentEntry(a.frame)),
                                   a.frame)] :
                a \in {Alloc(m)} })

\* the leaf entry map_to installs
LeafEntry(frame, flags) == [addr |-> frame, flags |-> flags]

\* the last step of map_to on machine m: the P1 entry must be unused
MapLeaf(m, page, frame, flags) ==
    IF m.err # "ok" THEN m
    ELSE IF ~IsUnused(m.tables, P1Of(m.tables, page), P1Index(page))
    THEN [m EXCEPT !.err = "conflict"]
    ELSE [m EXCEPT !.tables = SetEntry(m.tables, P1Of(m.tables, page), P1Index(page),
                                       LeafEntry(frame, flags))]

\* Mapper::map_to(page, frame, flags, allocator) through the recursive aliases
MapTo(m0, page, frame, flags) ==
    Only({ MapLeaf(m3, page, frame, flags) :
           m3 \in { CreateNextTable(m2, 2, page) :
                    m2 \in { CreateNextTable(m1, 3, page) :
                             m1 \in { CreateNextTable(m, 4, page) : m \in {m0} } } } })

\* Mapper::identity_map(frame, flags, allocator)
IdentityMap(m, frame, flags) == MapTo(m, frame, frame, flags)

\* a page mapped to the first frame the allocator issued instead of the one
\* just obtained
MapToFreshShared(m, page, flags) ==
    Only({ IF a.frame = NoFrame THEN [a.m EXCEPT !.err = "alloc"]
           ELSE MapTo(a.m, page, a.m.returned[1], flags) :
           a \in {Alloc(m)} })

\* map_to(page, allocate_frame().expect(..), flags, allocator): the frame is
\* taken first, the intermediate tables after it
MapToFresh(m, page, flags) ==
    Only({ IF a.frame = NoFrame THEN [a.m EXCEPT !.err = "alloc"]
           ELSE MapTo(a.m, page, a.frame, flags) :
           a \in {Alloc(m)} })

\* the hardware's translation of page v from top-level table root:
\* the leaf entry, or NotMapped
NotMapped == [addr |-> NoFrame, flags |-> {}]

Translate(t, root, v) ==
    IF IsUnused(t, root, P4Index(v)) \/ Follow(t, root, P4Index(v)) \notin DOMAIN t
    THEN NotMapped
    ELSE LET p3 == Follow(t, root, P4Index(v))
         IN  IF IsUnused(t, p3, P3Index(v)) THEN NotMapped
             ELSE LET p2 == Follow(t, p3, P3Index(v))
                  IN  IF IsUnused(t, p2, P2Index(v)) THEN NotMapped
                      ELSE LET p1 == Follow(t, p2, P2Index(v))
                           IN  IF IsUnused(t, p1, P1Index(v)) THEN NotMapped
                               ELSE t[p1][P1Index(v)]

\* Mapper::unmap(page) through the recursive aliases: the tables after it, or
\* the error PageNotMapped
Unmap(t, v) ==
    IF \/ IsUnused(t, P4Table(t), P4Index(v))
       \/ IsUnused(t, P3Of(t, v), P3Index(v))
       \/ IsUnused(t, P2Of(t, v), P2Index(v))
       \/ IsUnused(t, P1Of(t, v), P1Index(v))
       \/ PRESENT \notin t[P1Of(t, v)][P1Index(v)].flags
    THEN [tables |-> t, err |-> "not_mapped"]
    ELSE [tables |-> ClearEntry(t, P1Of(t, v), P1Index(v)), err |-> "ok"]

\* the machine m becomes the state: page tables and allocator
ApplyMachine(m) ==
    /\ tables' = m.tables
    /\ next_free_frame' = m.next_free_frame
    /\ current_area' = m.current_area
    /\ returned' = m.returned
    /\ rejected' = m.rejected

\* the panic of an unwrap / expect on the machine's error: "none" when there
\* is no error, else "alloc" (no frame left) or "conflict" (page already mapped)
PanicOf(e) == IF e = "ok" THEN "none" ELSE e

\* the kernel runs: no panic so far
Running == panic = "none"

----------------------------------------------------------------------------
(* Boot information: the inputs of init *)

SectionEnd(s) == s.start + s.size

AllocatedSections == {i \in DOMAIN sections : sections[i].allocated}

\* section flags that never carry NO_EXECUTE
SectionFlagsExecutable(s) ==
    (IF s.allocated THEN {PRESENT} ELSE {})
    \cup (IF s.writable THEN {WRITABLE} ELSE {})

\* the page-table flags remap_kernel derives from a section
SectionFlags(s) ==
    (IF s.allocated THEN {PRESENT} ELSE {})
    \cup (IF s.writable THEN {WRITABLE} ELSE {})
    \cup (IF ~s.executable THEN {NO_EXECUTE} ELSE {})

\* first and last frame remap_kernel maps for a section
SectionStartFrame(s) == s.start
SectionEndFrame(s) == ContainingAddress(SectionEnd(s) - 1)

\* the frames remap_kernel maps for the boot information
BootStartFrame == ContainingAddress(boot_start)

\* the frame holding the first address after the boot information
BootEndFrameAfter == ContainingAddress(boot_end)

\* the last frame remap_kernel maps for the boot information
BootEndFrame == ContainingAddress(boot_end - 1)

VgaFrame == ContainingAddress(VGA_BUFFER)

HeapStartPage == ContainingAddress(HEAP_START)
HeapEndPage == ContainingAddress(HEAP_START + HEAP_SIZE - 1)

\* the stack allocator's range handed to StackAllocator::new
StackRange == [start |-> HeapEndPage + PAGE_SIZE,
               end |-> HeapEndPage + STACK_RANGE_LAST * PAGE_SIZE]

\* the boot code's P3 table: a frame of the kernel image next to its P4 table
OldP3Frame(f) == IF f = kernel_start THEN f + PAGE_SIZE ELSE f - PAGE_SIZE

\* the top-level table the boot code leaves active: its recursive slot
\* designates itself and entry 0 its identity-mapping P3 table
OldP4Table(f) ==
    (0 :> [addr |-> OldP3Frame(f), flags |-> {PRESENT, WRITABLE}])
    @@ (RECURSIVE_INDEX :> [addr |-> f, flags |-> {PRESENT, WRITABLE}])

----------------------------------------------------------------------------
(* remap_kernel *)

\* a recursive entry left pointing at the table the register designates
RecursiveEntryOfActive(frame) == [addr |-> cr3, flags |-> {PRESENT, WRITABLE}]

\* new_table[511].set_frame(new_table_frame, PRESENT | WRITABLE)
RecursiveEntry(frame) == [addr |-> frame, flags |-> {PRESENT, WRITABLE}]

\* allocate the new top-level table, clear it, set its recursive entry
RemapNewTable ==
    /\ pc = "new_table"
    /\ Running
    /\ \E a \in {Alloc(Machine)} :
           /\ next_free_frame' = a.m.next_free_frame
           /\ current_area' = a.m.current_area
           /\ returned' = a.m.returned
           /\ rejected' = a.m.rejected
           /\ IF a.frame = NoFrame
              THEN /\ panic' = "alloc"
                   /\ UNCHANGED << pc, tables, new_table_frame >>
              ELSE /\ pc' = "retarget"
                   /\ UNCHANGED panic
                   /\ new_table_frame' = a.frame
                   /\ tables' = SetEntry(ZeroTable(tables, a.frame), a.frame,
                                         RECURSIVE_INDEX, RecursiveEntry(a.frame))
    /\ UNCHANGED << inputVars, diskVars, cr3, original_page_table_address, sec_i, cur,
                    heap_inited, controller, range, stack_call, stacks >>

\* a retargeted recursive slot that lost its writable flag
RetargetEntryReadOnly == [addr |-> new_table_frame, flags |-> {PRESENT}]

\* the table the recursive slot of the active table is retargeted to
RetargetEntry == [addr |-> new_table_frame, flags |-> {PRESENT, WRITABLE}]

\* save the active table's address, overwrite its recursive mapping
RemapRetarget ==
    /\ pc = "retarget"
    /\ Running
    /\ IF ActiveTableValid(tables)
       THEN /\ original_page_table_address' = Follow(tables, P4Table(tables), RECURSIVE_INDEX)
            /\ tables' = SetEntry(tables, P4Table(tables), RECURSIVE_INDEX, RetargetEntry)
            /\ sec_i' = 1
            /\ pc' = "section"
            /\ UNCHANGED panic
       ELSE /\ panic' = "table"
            /\ UNCHANGED << pc, original_page_table_address, tables, sec_i >>
    /\ UNCHANGED << inputVars, diskVars, allocVars, cr3, new_table_frame, cur,
                    heap_inited, controller, range, stack_call, stacks >>

\* the head of the section loop: skip a section that is not loaded, check the
\* alignment of a loaded one
RemapSection ==
    /\ pc = "section"
    /\ Running
    /\ IF sec_i > Len(sections)
       THEN pc' = "vga" /\ UNCHANGED << panic, sec_i, cur >>
       ELSE IF ~sections[sec_i].allocated
       THEN sec_i' = sec_i + 1 /\ UNCHANGED << pc, panic, cur >>
       ELSE IF ~IsAligned(sections[sec_i].start)
       THEN panic' = "misaligned" /\ UNCHANGED << pc, sec_i, cur >>
       ELSE pc' = "section_map" /\ cur' = SectionStartFrame(sections[sec_i])
                                /\ UNCHANGED << panic, sec_i >>
    /\ UNCHANGED << inputVars, diskVars, allocVars, tables, cr3, new_table_frame,
                    original_page_table_address, heap_inited, controller, range,
                    stack_call, stacks >>

\* identity-map one frame of the current section
RemapSectionFrame ==
    /\ pc = "section_map"
    /\ Running
    /\ IF cur > SectionEndFrame(sections[sec_i])
       THEN /\ pc' = "section"
            /\ sec_i' = sec_i + 1
            /\ UNCHANGED << panic, allocVars, tables, cur >>
       ELSE \E m \in {IdentityMap(Machine, cur, SectionFlags(sections[sec_i]))} :
                /\ ApplyMachine(m)
                /\ panic' = PanicOf(m.err)
                /\ UNCHANGED pc
                /\ cur' = IF m.err = "ok" THEN cur + PAGE_SIZE ELSE cur
                /\ UNCHANGED sec_i
    /\ UNCHANGED << inputVars, diskVars, cr3, new_table_frame, original_page_table_address,
                    heap_inited, controller, range, stack_call, stacks >>

\* flags of the VGA text buffer mapping
VgaFlags == {WRITABLE, PRESENT}

\* identity-map the VGA text buffer
RemapVga ==
    /\ pc = "vga"
    /\ Running
    /\ \E m \in {IdentityMap(Machine, VgaFrame, VgaFlags)} :
           /\ ApplyMachine(m)
           /\ panic' = PanicOf(m.err)
           /\ pc' = IF m.err = "ok" THEN "multiboot" ELSE pc
           /\ cur' = IF m.err = "ok" THEN BootStartFrame ELSE cur
    /\ UNCHANGED << inputVars, diskVars, cr3, new_table_frame, original_page_table_address,
                    sec_i, heap_inited, controller, range, stack_call, stacks >>

\* boot information flags with the writable flag added
MultibootFlagsWritable == {PRESENT, WRITABLE}

\* flags of the boot information mapping
MultibootFlags == {PRESENT}

\* identity-map one frame of the boot information
RemapMultiboot ==
    /\ pc = "multiboot"
    /\ Running
    /\ IF cur > BootEndFrame
       THEN pc' = "switch" /\ UNCHANGED << panic, allocVars, tables, cur >>
       ELSE \E m \in {IdentityMap(Machine, cur, MultibootFlags)} :
                /\ ApplyMachine(m)
                /\ panic' = PanicOf(m.err)
                /\ UNCHANGED pc
                /\ cur' = IF m.err = "ok" THEN cur + PAGE_SIZE ELSE cur
    /\ UNCHANGED << inputVars, diskVars, cr3, new_table_frame, original_page_table_address,
                    sec_i, heap_inited, controller, range, stack_call, stacks >>

\* Cr3::write(new_table_frame, ..)
RemapSwitch ==
    /\ pc = "switch"
    /\ Running
    /\ cr3' = new_table_frame
    /\ pc' = "unmap"
    /\ UNCHANGED << panic, inputVars, diskVars, allocVars, tables, new_table_frame,
                    original_page_table_address, sec_i, cur, heap_inited, controller,
                    range, stack_call, stacks >>

\* the page turned into a guard page
OldP4Page == ContainingAddress(original_page_table_address)

\* an unmap step that reports success and leaves the entry in place
UnmapOldKeep(t) == [tables |-> t, err |-> "ok"]

\* the tables after the old table's page is unmapped
UnmapOld(t) == Unmap(t, OldP4Page)

\* turn the original P4 page into a guard page
RemapUnmapOld ==
    /\ pc = "unmap"
    /\ Running
    /\ IF ~ActiveTableValid(tables)
       THEN panic' = "table" /\ UNCHANGED << pc, tables, cur >>
       ELSE \E u \in {UnmapOld(tables)} :
                /\ tables' = u.tables
                /\ panic' = PanicOf(u.err)
                /\ pc' = IF u.err = "ok" THEN "heap" ELSE pc
                /\ cur' = IF u.err = "ok" THEN HeapStartPage ELSE cur
    /\ UNCHANGED << inputVars, diskVars, allocVars, cr3, new_table_frame,
                    original_page_table_address, sec_i, heap_inited, controller,
                    range, stack_call, stacks >>

----------------------------------------------------------------------------
(* init, after remap_kernel *)

\* heap flags without the writable flag
HeapFlagsReadOnly == {PRESENT}

\* flags of the heap mapping
HeapFlags == {WRITABLE, PRESENT}

\* map one page of the heap to a fresh frame
InitMapHeap ==
    /\ pc = "heap"
    /\ Running
    /\ IF ~ActiveTableValid(tables)
       THEN panic' = "table" /\ UNCHANGED << pc, allocVars, tables, cur >>
       ELSE IF cur > HeapEndPage
       THEN pc' = "heap_init" /\ UNCHANGED << panic, allocVars, tables, cur >>
       ELSE \E m \in {MapToFresh(Machine, cur, HeapFlags)} :
                /\ ApplyMachine(m)
                /\ panic' = PanicOf(m.err)
                /\ UNCHANGED pc
                /\ cur' = IF m.err = "ok" THEN cur + PAGE_SIZE ELSE cur
    /\ UNCHANGED << inputVars, diskVars, cr3, new_table_frame, original_page_table_address,
                    sec_i, heap_inited, controller, range, stack_call, stacks >>

\* HEAP_ALLOCATOR.lock().init(HEAP_START, HEAP_SIZE)
InitHeapAllocator ==
    /\ pc = "heap_init"
    /\ Running
    /\ heap_inited' = TRUE
    /\ pc' = "controller"
    /\ UNCHANGED << panic, inputVars, diskVars, allocVars, tables, cr3, new_table_frame,
                    original_page_table_address, sec_i, cur, controller, range,
                    stack_call, stacks >>

\* the stack allocator and the MemoryController are constructed
InitController ==
    /\ pc = "controller"
    /\ Running
    /\ range' = StackRange
    /\ controller' = TRUE
    /\ pc' = "ready"
    /\ UNCHANGED << panic, inputVars, diskVars, allocVars, tables, cr3, new_table_frame,
                    original_page_table_address, sec_i, cur, heap_inited,
                    stack_call, stacks >>

----------------------------------------------------------------------------
(* StackAllocator *)

NoPage == 0 - 1                \* Option::None of a page

\* PageRangeInclusive::next: the page and the range after it
RangeNext(r) ==
    IF r.start <= r.end
    THEN [item |-> r.start, range |-> [r EXCEPT !.start = r.start + PAGE_SIZE]]
    ELSE [item |-> NoPage, range |-> r]

\* Iterator::nth(k): skip k pages, return the next one
RECURSIVE RangeNth(_, _)
RangeNth(r, k) ==
    IF k = 0 THEN RangeNext(r)
    ELSE IF RangeNext(r).item = NoPage THEN RangeNext(r)
    ELSE RangeNth(RangeNext(r).range, k - 1)

\* a plan that takes no guard page from the range
StackPlanNoGuard(r, size_in_pages) ==
    LET s == RangeNext(r)
        e == IF size_in_pages = 1 THEN s ELSE RangeNth(s.range, size_in_pages - 2)
    IN  [guard |-> r.start - PAGE_SIZE, start |-> s.item, end |-> e.item, range |-> e.range]

\* the guard page, first and last page and remaining range allocate_stack
\* computes on a clone of the range
StackPlan(r, size_in_pages) ==
    LET g == RangeNext(r)
        s == RangeNext(g.range)
        e == IF size_in_pages = 1 THEN s ELSE RangeNth(s.range, size_in_pages - 2)
    IN  [guard |-> g.item, start |-> s.item, end |-> e.item, range |-> e.range]

\* a committed range that still holds the stack's last page
CommittedRangeFromEnd(plan) == [plan.range EXCEPT !.start = plan.end]

\* the range the allocator keeps once the plan succeeded
CommittedRange(plan) == plan.range

\* a failed call recorded as a success
NoStackReturned(size_in_pages, before) ==
    [size |-> size_in_pages, ok |-> TRUE, top |-> 0, bottom |-> 0, guard |-> NoPage,
     range_before |-> before, range_after |-> range, frames_before |-> Len(returned)]

\* the record of a failed call
NoStack(size_in_pages, before) ==
    [size |-> size_in_pages, ok |-> FALSE, top |-> 0, bottom |-> 0, guard |-> NoPage,
     range_before |-> before, range_after |-> range, frames_before |-> Len(returned)]

\* a stack whose top is the start of its last page
NewStackTopAtEnd(call) ==
    [size |-> call.size, ok |-> TRUE, top |-> call.end, bottom |-> call.start,
     guard |-> call.guard, range_before |-> call.range_before, range_after |-> range,
     frames_before |-> call.frames_before]

\* Stack::new(end.start_address() + end.size(), start.start_address())
NewStack(call) ==
    [size |-> call.size, ok |-> TRUE, top |-> call.end + PAGE_SIZE, bottom |-> call.start,
     guard |-> call.guard, range_before |-> call.range_before, range_after |-> range,
     frames_before |-> call.frames_before]

NoCall == [size |-> 0, guard |-> NoPage, start |-> NoPage, end |-> NoPage,
           range_before |-> [start |-> 0, end |-> 0], frames_before |-> 0]

\* a failed call that keeps the range its clone was advanced to
FailedRangeAdvanced(plan, r) == plan.range

\* the range after a call that fails: only the clone was advanced
FailedRange(plan, r) == r

\* allocate_stack(size_in_pages) up to the mapping loop, as one of at most
\* max_calls calls
AllocateStackWithin(size_in_pages, max_calls) ==
    /\ pc = "ready"
    /\ Running
    /\ Len(stacks) < max_calls
    /\ IF size_in_pages = 0
       THEN /\ stacks' = Append(stacks, NoStack(size_in_pages, range))
            /\ UNCHANGED << pc, range, stack_call, cur >>
       ELSE \E plan \in {StackPlan(range, size_in_pages)} :
                IF plan.guard # NoPage /\ plan.start # NoPage /\ plan.end # NoPage
                THEN /\ range' = CommittedRange(plan)
                     /\ stack_call' = [size |-> size_in_pages, guard |-> plan.guard,
                                       start |-> plan.start, end |-> plan.end,
                                       range_before |-> range,
                                       frames_before |-> Len(returned)]
                     /\ cur' = plan.start
                     /\ pc' = "stack_map"
                     /\ UNCHANGED stacks
                ELSE /\ stacks' = Append(stacks, NoStack(size_in_pages, range))
                     /\ range' = FailedRange(plan, range)
                     /\ UNCHANGED << pc, stack_call, cur >>
    /\ UNCHANGED << panic, inputVars, diskVars, allocVars, tables, cr3, new_table_frame,
                    original_page_table_address, sec_i, heap_inited, controller >>

\* allocate_stack(size_in_pages) up to the mapping loop
AllocateStack(size_in_pages) == AllocateStackWithin(size_in_pages, MaxStackCalls)

\* flags of a stack page mapping
StackFlags == {WRITABLE, PRESENT}

\* one turn of allocate_stack's mapping loop, or its return
AllocateStackMap ==
    /\ pc = "stack_map"
    /\ Running
    /\ IF cur > stack_call.end
       THEN /\ stacks' = Append(stacks, NewStack(stack_call))
            /\ pc' = "ready"
            /\ UNCHANGED << panic, allocVars, tables, cur >>
       ELSE \E m \in {MapToFresh(Machine, cur, StackFlags)} :
                /\ ApplyMachine(m)
                /\ panic' = PanicOf(m.err)
                /\ UNCHANGED pc
                /\ cur' = IF m.err = "ok" THEN cur + PAGE_SIZE ELSE cur
                /\ UNCHANGED stacks
    /\ UNCHANGED << inputVars, diskVars, cr3, new_table_frame, original_page_table_address,
                    sec_i, heap_inited, controller, range, stack_call >>

----------------------------------------------------------------------------
(* The ATA disk: Disk::read *)

ATA_INTERRUPT_PORT == 1014     \* 0x3f6
SECTOR_COUNT_PORT == 498       \* 0x1f2
LBA_LOW_PORT == 499            \* 0x1f3
LBA_MID_PORT == 500            \* 0x1f4
LBA_HIGH_PORT == 501           \* 0x1f5
DRIVE_PORT == 502              \* 0x1f6
READ_COMMAND == 32             \* 0x20
STATUS_BUSY == 128
STATUS_READY == 64

\* a sector is 512 bytes, read as 32-bit words
WORDS_PER_SECTOR == 512 \div 4

\* the byte registers of the drive the driver writes
TaskFile == {ATA_INTERRUPT_PORT, SECTOR_COUNT_PORT, LBA_LOW_PORT, LBA_MID_PORT,
             LBA_HIGH_PORT, DRIVE_PORT}

\* Port<u8>::write(value as u8)
OutByte(regs, port, value) == [regs EXCEPT ![port] = value % 256]

\* Port<u16>::write on a byte register: the low byte reaches the register, the
\* high byte reaches the next port when the bus splits the access
OutWord(regs, port, value, split) ==
    IF split
    THEN [regs EXCEPT ![port] = value % 256, ![port + 1] = (value \div 256) % 256]
    ELSE [regs EXCEPT ![port] = value % 256]

\* (0xE0 | ((logical_block_address >> 24) & 0xF)) as u8
DriveSelect(lba) == 224 + ((lba \div (2 ^ 24)) % 16)

\* is_busy / is_ready on a byte read from the status port
IsBusy(status) == (status \div STATUS_BUSY) % 2 = 1
IsReady(status) == (status \div STATUS_READY) % 2 = 1
StatusValues == {0, STATUS_READY, STATUS_BUSY, STATUS_BUSY + STATUS_READY}

NoRequest == [lba |-> 0, amount |-> 0]
NoCommand == [command |-> 0, lba |-> 0, amount |-> 0, count |-> 0,
              low |-> 0, mid |-> 0, high |-> 0, drive |-> 0]

\* no Disk::read call has been made
DiskUntouched ==
    /\ registers = [p \in TaskFile |-> 0]
    /\ disk_pc = "idle"
    /\ request = NoRequest
    /\ command = NoCommand
    /\ words_read = 0

\* Disk::read(target, logical_block_address, amount_of_sectors): the ATA
\* interrupt is disabled
DiskRead(logical_block_address, amount_of_sectors) ==
    /\ disk_pc = "idle"
    /\ request' = [lba |-> logical_block_address, amount |-> amount_of_sectors]
    /\ registers' = OutByte(registers, ATA_INTERRUPT_PORT, 2)
    /\ disk_pc' = "sector_count"
    /\ words_read' = 0
    /\ UNCHANGED << command, inputVars, allocVars, bootVars >>

\* SECTOR_COUNT_PORT.write(amount_of_sectors), a 16-bit write
DiskWriteSectorCount ==
    /\ disk_pc = "sector_count"
    /\ \E split \in BOOLEAN :
           registers' = OutWord(registers, SECTOR_COUNT_PORT, request.amount, split)
    /\ disk_pc' = "drive"
    /\ UNCHANGED << request, command, words_read, inputVars, allocVars, bootVars >>

\* DRIVE_PORT.write(0xE0 | bits 24..27 of the address)
DiskWriteDrive ==
    /\ disk_pc = "drive"
    /\ registers' = OutByte(registers, DRIVE_PORT, DriveSelect(request.lba))
    /\ disk_pc' = "lba_low"
    /\ UNCHANGED << request, command, words_read, inputVars, allocVars, bootVars >>

\* LBA_LOW_PORT.write(logical_block_address as u8)
DiskWriteLbaLow ==
    /\ disk_pc = "lba_low"
    /\ registers' = OutByte(registers, LBA_LOW_PORT, request.lba)
    /\ disk_pc' = "lba_mid"
    /\ UNCHANGED << request, command, words_read, inputVars, allocVars, bootVars >>

\* LBA_LOW_PORT.write((logical_block_address >> 8) as u8)
DiskWriteLbaMid ==
    /\ disk_pc = "lba_mid"
    /\ registers' = OutByte(registers, LBA_LOW_PORT, request.lba \div (2 ^ 8))
    /\ disk_pc' = "lba_high"
    /\ UNCHANGED << request, command, words_read, inputVars, allocVars, bootVars >>

\* LBA_LOW_PORT.write((logical_block_address >> 16) as u8)
DiskWriteLbaHigh ==
    /\ disk_pc = "lba_high"
    /\ registers' = OutByte(registers, LBA_LOW_PORT, request.lba \div (2 ^ 16))
    /\ disk_pc' = "command"
    /\ UNCHANGED << request, command, words_read, inputVars, allocVars, bootVars >>

\* COMMAND_PORT.write(READ_COMMAND): the drive starts on what its registers hold
DiskSendCommand ==
    /\ disk_pc = "command"
    /\ command' = [command |-> READ_COMMAND, lba |-> request.lba,
                   amount |-> request.amount,
                   count |-> registers[SECTOR_COUNT_PORT],
                   low |-> registers[LBA_LOW_PORT], mid |-> registers[LBA_MID_PORT],
                   high |-> registers[LBA_HIGH_PORT], drive |-> registers[DRIVE_PORT]]
    /\ disk_pc' = "data"
    /\ UNCHANGED << registers, request, words_read, inputVars, allocVars, bootVars >>

\* one turn of the transfer loops: poll the status port, then take a word
\* from the data port; after the last word, reset()
DiskTransfer ==
    /\ disk_pc = "data"
    /\ IF words_read = request.amount * WORDS_PER_SECTOR
       THEN /\ registers' = OutByte(OutByte(registers, ATA_INTERRUPT_PORT, 6),
                                    ATA_INTERRUPT_PORT, 2)
            /\ disk_pc' = "idle"
            /\ UNCHANGED words_read
       ELSE \E busy_read, ready_read \in StatusValues :
                /\ words_read' = IF IsBusy(busy_read) \/ ~IsReady(ready_read)
                                 THEN words_read
                                 ELSE words_read + 1
                /\ UNCHANGED << registers, disk_pc >>
    /\ UNCHANGED << request, command, inputVars, allocVars, bootVars >>

----------------------------------------------------------------------------
(* Inputs of the boot *)

KernelBase == 256 * PAGE_SIZE      \* the kernel image is loaded at 1 MiB
HalfPage == PAGE_SIZE \div 2

\* loaded / writable / executable attributes of a section
SectionKinds ==
    { [allocated |-> TRUE,  writable |-> FALSE, executable |-> TRUE],
      [allocated |-> TRUE,  writable |-> FALSE, executable |-> FALSE],
      [allocated |-> TRUE,  writable |-> TRUE,  executable |-> FALSE],
      [allocated |-> TRUE,  writable |-> TRUE,  executable |-> TRUE],
      [allocated |-> FALSE, writable |-> FALSE, executable |-> FALSE] }

SectionSizes == {PAGE_SIZE, PAGE_SIZE + HalfPage}

RECURSIVE SumSizes(_, _)
SumSizes(ch, k) == IF k = 0 THEN 0 ELSE ch[k].size + SumSizes(ch, k - 1)

\* sections laid out one after the other from KernelBase
Place(ch) ==
    [k \in DOMAIN ch |->
        [start |-> KernelBase + SumSizes(ch, k - 1), size |-> ch[k].size,
         allocated |-> ch[k].kind.allocated, writable |-> ch[k].kind.writable,
         executable |-> ch[k].kind.executable]]

\* the images of up to MaxSections sections, at least one of them loaded
SectionLayouts ==
    { secs \in { Place(ch) : ch \in UNION { [1..n -> [kind : SectionKinds,
                                                       size : SectionSizes]]
                                            : n \in 1..MaxSections } } :
        \E i \in DOMAIN secs : secs[i].allocated }

\* text then data, one page each
DefaultSections ==
    Place(<< [kind |-> [allocated |-> TRUE, writable |-> FALSE, executable |-> TRUE],
              size |-> PAGE_SIZE],
             [kind |-> [allocated |-> TRUE, writable |-> TRUE, executable |-> FALSE],
              size |-> PAGE_SIZE] >>)

\* end of the image: the end of its last section
ImageEnd(secs) == SectionEnd(secs[Len(secs)])

\* the memory areas: an optional low area from address 0 and the area the
\* kernel is loaded in
AreasOf(low, n) ==
    (IF low = 0 THEN << >>
     ELSE << [start |-> 0, end |-> low * PAGE_SIZE + HalfPage] >>)
    \o << [start |-> KernelBase, end |-> KernelBase + n * PAGE_SIZE] >>

Min(S) == CHOOSE x \in S : \A y \in S : x <= y
Max(S) == CHOOSE x \in S : \A y \in S : x >= y

\* init: kernel_start / kernel_end over the loaded sections
KernelStartAddr(secs) == Min({secs[i].start : i \in {j \in DOMAIN secs : secs[j].allocated}})
KernelEndAddr(secs) == Max({SectionEnd(secs[i]) : i \in {j \in DOMAIN secs : secs[j].allocated}})

\* init up to the call of remap_kernel, for the given boot information
BootInit(secs, bs, be, ars, p4) ==
    /\ sections = secs
    /\ boot_start = bs
    /\ boot_end = be
    /\ areas = ars
    /\ kernel_start = ContainingAddress(KernelStartAddr(secs))
    /\ kernel_end = ContainingAddress(KernelEndAddr(secs))
    /\ multiboot_start = ContainingAddress(bs)
    /\ multiboot_end = ContainingAddress(be)
    /\ next_free_frame = NewAllocator.next_free_frame
    /\ current_area = NewAllocator.current_area
    /\ returned = << >>
    /\ rejected = << >>
    /\ old_p4 = p4
    /\ tables = (p4 :> OldP4Table(p4))
    /\ cr3 = p4
    /\ panic = "none"
    /\ pc = "new_table"
    /\ new_table_frame = NoFrame
    /\ original_page_table_address = NoFrame
    /\ sec_i = 0
    /\ cur = 0
    /\ heap_inited = FALSE
    /\ controller = FALSE
    /\ range = [start |-> 0, end |-> 0]
    /\ stack_call = NoCall
    /\ stacks = << >>

\* the first and the last frame the allocator keeps for the kernel image; one
\* of them holds the boot code's P4 table
ImageFrames(secs) ==
    {ContainingAddress(KernelStartAddr(secs)), ContainingAddress(KernelEndAddr(secs))}

\* where the boot loader may have put the boot information
BootStarts(secs) == {ImageEnd(secs), ContainingAddress(ImageEnd(secs)) + PAGE_SIZE}
BootSizes == {HalfPage, PAGE_SIZE}

Init ==
    \E secs \in SectionLayouts, low \in 0..MaxLowFrames, n \in 1..MaxAreaFrames :
      \E bs \in BootStarts(secs), bsize \in BootSizes, p4 \in ImageFrames(secs) :
        \* any image with ample memory, or the default image with any memory
        /\ \/ n = MaxAreaFrames /\ low = 0 /\ bsize = PAGE_SIZE
           \/ secs = DefaultSections /\ p4 = KernelBase
        /\ BootInit(secs, bs, bs + bsize, AreasOf(low, n), p4)
        /\ DiskUntouched

Next ==
    \/ RemapNewTable
    \/ RemapRetarget
    \/ RemapSection
    \/ RemapSectionFrame
    \/ RemapVga
    \/ RemapMultiboot
    \/ RemapSwitch
    \/ RemapUnmapOld
    \/ InitMapHeap
    \/ InitHeapAllocator
    \/ InitController
    \/ \E size_in_pages \in 0..MaxStackPages : AllocateStack(size_in_pages)
    \/ AllocateStackMap

Spec == Init /\ [][Next]_vars

----------------------------------------------------------------------------
(* remap_kernel on its own: any image, ample memory *)

InitRemap ==
    \E secs \in SectionLayouts :
      \E bs \in BootStarts(secs), bsize \in BootSizes, p4 \in ImageFrames(secs) :
        /\ BootInit(secs, bs, bs + bsize, AreasOf(0, MaxAreaFrames), p4)
        /\ DiskUntouched

NextRemap ==
    \/ RemapNewTable
    \/ RemapRetarget
    \/ RemapSection
    \/ RemapSectionFrame
    \/ RemapVga
    \/ RemapMultiboot
    \/ RemapSwitch
    \/ RemapUnmapOld

\* remap_kernel runs on one processor before interrupts are set up: it keeps
\* taking steps until it panics or returns
SpecRemap == InitRemap /\ [][NextRemap]_vars /\ WF_vars(NextRemap)

----------------------------------------------------------------------------
(* Stacks until the range is used up: the default image, ample memory *)

LongAreaFrames == 140
MaxLongCalls == 3

\* small stacks, one that leaves three pages of the fresh range, and one
\* that needs a page more than the fresh range holds
LongStackSizes == {1, 2, 3, STACK_RANGE_LAST - 4, STACK_RANGE_LAST}

InitLong ==
    \E bs \in BootStarts(DefaultSections) :
        /\ BootInit(DefaultSections, bs, bs + PAGE_SIZE, AreasOf(0, LongAreaFrames),
                    KernelBase)
        /\ DiskUntouched

NextLong ==
    \/ RemapNewTable
    \/ RemapRetarget
    \/ RemapSection
    \/ RemapSectionFrame
    \/ RemapVga
    \/ RemapMultiboot
    \/ RemapSwitch
    \/ RemapUnmapOld
    \/ InitMapHeap
    \/ InitHeapAllocator
    \/ InitController
    \/ \E size_in_pages \in LongStackSizes : AllocateStackWithin(size_in_pages, MaxLongCalls)
    \/ AllocateStackMap

SpecLong == InitLong /\ [][NextLong]_vars

----------------------------------------------------------------------------
(* Disk::read on its own: any block address, any register contents *)

\* block addresses with each byte and the top nibble set in turn
DiskAddresses == {0, 1, 513, 197121, 67305985, 2147483647}
DiskAmounts == {0, 1, 2}

\* what the firmware may have left in a register the driver never writes
StaleBytes == {0, 255}

InitDisk ==
    /\ BootInit(DefaultSections, ImageEnd(DefaultSections),
                ImageEnd(DefaultSections) + PAGE_SIZE, AreasOf(0, MaxAreaFrames),
                KernelBase)
    /\ \E mid, high \in StaleBytes :
           registers = [p \in TaskFile |->
                           IF p = LBA_MID_PORT THEN mid
                           ELSE IF p = LBA_HIGH_PORT THEN high
                           ELSE 0]
    /\ disk_pc = "idle"
    /\ request = NoRequest
    /\ command = NoCommand
    /\ words_read = 0

NextDisk ==
    \/ \E lba \in DiskAddresses, n \in DiskAmounts : DiskRead(lba, n)
    \/ DiskWriteSectorCount
    \/ DiskWriteDrive
    \/ DiskWriteLbaLow
    \/ DiskWriteLbaMid
    \/ DiskWriteLbaHigh
    \/ DiskSendCommand
    \/ DiskTransfer

SpecDisk == InitDisk /\ [][NextDisk]_vars

----------------------------------------------------------------------------
(* The frame allocator on its own: any areas, any kernel and boot ranges *)

\* addresses at half-page steps up to the end of frame MaxAllocFrame
AllocAddrs == {k * HalfPage : k \in 0..(2 * (MaxAllocFrame + 1))}
AllocFrames == {k * PAGE_SIZE : k \in 0..MaxAllocFrame}

\* areas start at a frame boundary and end at any half page
AllocAreas == {a \in [start : AllocFrames, end : AllocAddrs] : a.start < a.end}

\* one or two memory areas, in any order, adjacent or overlapping
AllocAreaSeqs == {<< a >> : a \in AllocAreas} \cup {<< a, b >> : a, b \in AllocAreas}

\* AreaFrameAllocator::new(kernel_start, kernel_end, multiboot_start,
\* multiboot_end, memory_areas)
NewAreaFrameAllocator(ks, ke, ms, me, ars) ==
    /\ areas = ars
    /\ kernel_start = ContainingAddress(ks)
    /\ kernel_end = ContainingAddress(ke)
    /\ multiboot_start = ContainingAddress(ms)
    /\ multiboot_end = ContainingAddress(me)
    /\ next_free_frame = NewAllocator.next_free_frame
    /\ current_area = NewAllocator.current_area
    /\ returned = << >>
    /\ rejected = << >>

InitAlloc ==
    /\ \E ars \in AllocAreaSeqs, ks \in AllocFrames, klen \in {0, 1},
          ms \in AllocFrames, mlen \in {0, 1} :
          NewAreaFrameAllocator(ks, ks + klen * PAGE_SIZE + HalfPage,
                                ms + HalfPage, ms + mlen * PAGE_SIZE + HalfPage, ars)
    /\ sections = << >>
    /\ boot_start = 0
    /\ boot_end = 0
    /\ old_p4 = NoFrame
    /\ tables = << >>
    /\ cr3 = NoFrame
    /\ panic = "none"
    /\ pc = "alloc"
    /\ new_table_frame = NoFrame
    /\ original_page_table_address = NoFrame
    /\ sec_i = 0
    /\ cur = 0
    /\ heap_inited = FALSE
    /\ controller = FALSE
    /\ range = [start |-> 0, end |-> 0]
    /\ stack_call = NoCall
    /\ stacks = << >>
    /\ DiskUntouched

\* one allocate_frame call
AllocateFrameCall ==
    /\ pc = "alloc"
    /\ Running
    /\ Len(returned) < MaxCalls
    /\ \E a \in {Alloc(Machine)} :
           /\ next_free_frame' = a.m.next_free_frame
           /\ current_area' = a.m.current_area
           /\ returned' = a.m.returned
           /\ rejected' = a.m.rejected
    /\ UNCHANGED << inputVars, diskVars, bootVars >>

NextAlloc == AllocateFrameCall

SpecAlloc == InitAlloc /\ [][NextAlloc]_vars

----------------------------------------------------------------------------
(* Properties *)

\* the frames handed out so far, in the order of the calls
Issued == SelectSeq(returned, LAMBDA f : f # NoFrame)

\* C1: for any sequence of allocate_frame calls the frames returned are
\* strictly increasing in physical address (hence pairwise distinct), and the
\* cursor next_free_frame never decreases.
C1_FramesIncreasing ==
    /\ [](\A i, j \in DOMAIN Issued : i < j => Issued[i] < Issued[j])
    /\ [][next_free_frame' >= next_free_frame]_vars

\* two frames were handed out from two different areas
C1_Witness ==
    /\ Len(Issued) >= 2
    /\ Len(areas) = 2
    /\ current_area = 2
    /\ Issued[1] <= AreaLastFrame(1)
    /\ Issued[2] > AreaLastFrame(1)

\* C2: allocate_frame never returns a frame f with kernel_start <= f <= kernel_end.
C2_NoKernelFrame ==
    \A i \in DOMAIN returned :
        returned[i] # NoFrame => ~(kernel_start <= returned[i] /\ returned[i] <= kernel_end)

\* the cursor met the kernel range inside an area, and the frame after the
\* range was handed out
C2_Witness ==
    /\ kernel_start < kernel_end
    /\ \E a \in DOMAIN areas :
          areas[a].start <= kernel_start /\ AreaLastFrame(a) > kernel_end
    /\ \E i \in DOMAIN returned : returned[i] = kernel_end + PAGE_SIZE

\* C3: allocate_frame never returns a frame f with multiboot_start <= f <=
\* multiboot_end, also when the boot-metadata range directly follows or
\* overlaps the kernel range.
C3_NoMultibootFrame ==
    \A i \in DOMAIN returned :
        returned[i] # NoFrame
            => ~(multiboot_start <= returned[i] /\ returned[i] <= multiboot_end)

\* the boot-metadata range directly follows the kernel range inside an area,
\* and the frame after both was handed out
C3_Witness ==
    /\ multiboot_start = kernel_end + PAGE_SIZE
    /\ multiboot_start < multiboot_end
    /\ \E a \in DOMAIN areas :
          areas[a].start <= kernel_start /\ AreaLastFrame(a) > multiboot_end
    /\ \E i \in DOMAIN returned : returned[i] = multiboot_end + PAGE_SIZE

----------------------------------------------------------------------------
(* Observations of the boot: positions, and the hierarchy as the hardware *)
(* walks it from a top-level table                                          *)

\* positions of remap_kernel up to and including the table-base write
BeforeSwitch == {"new_table", "retarget", "section", "section_map", "vga",
                 "multiboot", "switch"}

\* positions between the retargeting of the recursive slot and the table-base write
RetargetWindow == {"section", "section_map", "vga", "multiboot", "switch"}

\* positions after remap_kernel returned
AfterUnmap == {"heap", "heap_init", "controller", "ready", "stack_map"}

\* positions after the VGA buffer / the boot information were mapped
AfterVga == {"multiboot", "switch", "unmap"} \cup AfterUnmap
AfterMultiboot == {"switch", "unmap"} \cup AfterUnmap

\* the tables one level below the tables fs, the entries skip aside
TablesBelow(t, fs, skip) ==
    UNION { {t[f][i].addr : i \in (DOMAIN t[f]) \ skip} : f \in fs } \cap DOMAIN t

\* the leaf entries of the hierarchy rooted at root, its recursive slot aside
LeafEntries(t, root) ==
    UNION { {t[f][i] : i \in DOMAIN t[f]} :
            f \in TablesBelow(t, TablesBelow(t, TablesBelow(t, {root}, {RECURSIVE_INDEX}),
                                             {}), {}) }

\* the frames from first to last
FramesBetween(first, last) ==
    {first + k * PAGE_SIZE : k \in 0..((last - first) \div PAGE_SIZE)}

\* the page remap_kernel turned into a guard page
IsGuardPage(f) == pc \in AfterUnmap /\ f = old_p4

\* the pages of the stack the current allocate_stack call maps
StackPages == FramesBetween(stack_call.start, stack_call.end)

----------------------------------------------------------------------------
(* Stack allocation and the new address space *)

\* C4: when allocate_stack cannot obtain a frame partway through the mapping
\* of its pages, the allocator's range is the one before the call and no page
\* of the partial stack is mapped.
C4_AllOrNothing ==
    (pc = "stack_map" /\ panic = "alloc")
        => /\ range = stack_call.range_before
           /\ \A p \in StackPages : Translate(tables, cr3, p) = NotMapped

\* C5: no leaf entry of the hierarchy remap_kernel builds, and init and
\* allocate_stack extend, is writable without being no-execute.
C5_NoWritableExecutableLeaf ==
    new_table_frame # NoFrame
        => \A e \in LeafEntries(tables, new_table_frame) :
               ~(WRITABLE \in e.flags /\ NO_EXECUTE \notin e.flags)

\* section i's frame f has been identity-mapped
SectionFrameMapped(i, f) ==
    \/ i < sec_i
    \/ i = sec_i /\ pc = "section_map" /\ f < cur

\* C6: every frame of a loaded section that remap_kernel has mapped is mapped
\* to itself with PRESENT, with WRITABLE exactly when the section is writable
\* and with NO_EXECUTE exactly when the section is not executable (the frame
\* of the old top-level table aside, once it has become the guard page).
C6_SectionFlagsExact ==
    \A i \in AllocatedSections :
        \A f \in FramesBetween(sections[i].start, SectionEndFrame(sections[i])) :
            (SectionFrameMapped(i, f) /\ ~IsGuardPage(f))
                => \E e \in {Translate(tables, new_table_frame, f)} :
                       /\ e.addr = f
                       /\ PRESENT \in e.flags
                       /\ (WRITABLE \in e.flags) <=> sections[i].writable
                       /\ (NO_EXECUTE \in e.flags) <=> ~sections[i].executable

\* a read-only executable section and a writable non-executable section of
\* two frames have been mapped, and remap_kernel is about to switch
C6_Witness ==
    /\ pc = "switch"
    /\ Running
    /\ Len(sections) = 2
    /\ sections[1].allocated /\ ~sections[1].writable /\ sections[1].executable
    /\ sections[2].allocated /\ sections[2].writable /\ ~sections[2].executable
    /\ sections[2].size > PAGE_SIZE

\* the frames remap_kernel maps for the boot information
BootFrames == FramesBetween(BootStartFrame, BootEndFrame)

\* boot-information frame f has been identity-mapped
BootFrameMapped(f) ==
    \/ pc \in AfterMultiboot
    \/ pc = "multiboot" /\ f < cur

\* the VGA frame is identity-mapped present and writable
VgaMapped ==
    pc \in AfterVga
        => Translate(tables, new_table_frame, VgaFrame)
               = [addr |-> VgaFrame, flags |-> {PRESENT, WRITABLE}]

\* C7 as stated: remap_kernel identity-maps the VGA frame and every frame of
\* the boot information with the flags present and writable.
C7_VgaAndBootWritable ==
    /\ VgaMapped
    /\ \A f \in BootFrames :
           (BootFrameMapped(f) /\ ~IsGuardPage(f))
               => Translate(tables, new_table_frame, f)
                      = [addr |-> f, flags |-> {PRESENT, WRITABLE}]

\* C7, amended: remap_kernel identity-maps the VGA frame present and writable,
\* and every frame of the boot information present only, without the
\* writable flag (the frame of the old top-level table aside, once it has
\* become the guard page).
C7_VgaWritableBootPresent ==
    /\ VgaMapped
    /\ \A f \in BootFrames :
           (BootFrameMapped(f) /\ ~IsGuardPage(f))
               => Translate(tables, new_table_frame, f)
                      = [addr |-> f, flags |-> {PRESENT}]

\* the VGA frame and a boot information of two frames have been mapped
C7_Witness ==
    /\ pc = "switch"
    /\ Running
    /\ BootEndFrame > BootStartFrame
    /\ Translate(tables, new_table_frame, VgaFrame) # NotMapped
    /\ Translate(tables, new_table_frame, BootEndFrame) # NotMapped

\* remap_kernel panicked before the table-base register was written
FailedBeforeSwitch == panic # "none" /\ pc \in BeforeSwitch

\* the entries of the old top-level table other than its recursive slot are
\* the ones the boot code left
OldEntriesKept ==
    /\ DOMAIN tables[old_p4] = DOMAIN OldP4Table(old_p4)
    /\ \A i \in (DOMAIN tables[old_p4]) \ {RECURSIVE_INDEX} :
           tables[old_p4][i] = OldP4Table(old_p4)[i]

\* C8 as stated: when remap_kernel fails before the table-base register is
\* written, every entry of the old top-level table, entry 511 included, has
\* the value it had before remap_kernel and the register still designates it.
C8_OldHierarchyUntouched ==
    FailedBeforeSwitch
        => /\ tables[old_p4] = OldP4Table(old_p4)
           /\ cr3 = old_p4

\* C8, amended: when remap_kernel fails before the table-base register is
\* written, the register still designates the old top-level table and its
\* entries other than 511 are unchanged; entry 511 is unchanged only when the
\* failure is the allocation of the new table's frame, and otherwise
\* designates the new table's frame.
C8_OldHierarchyButRecursiveSlot ==
    FailedBeforeSwitch
        => /\ cr3 = old_p4
           /\ OldEntriesKept
           /\ tables[old_p4][RECURSIVE_INDEX]
                  = IF pc \in {"new_table", "retarget"}
                    THEN OldP4Table(old_p4)[RECURSIVE_INDEX]
                    ELSE [addr |-> new_table_frame, flags |-> {PRESENT, WRITABLE}]

\* a section turned out misaligned after an earlier section had been mapped
C8_Witness ==
    /\ panic = "misaligned"
    /\ pc = "section"
    /\ sec_i = 2
    /\ sections[1].allocated

\* the frame the recursive slot of the table at frame f designates
RecursiveSlot(f) ==
    IF f \in DOMAIN tables /\ RECURSIVE_INDEX \in DOMAIN tables[f]
    THEN tables[f][RECURSIVE_INDEX].addr
    ELSE NoFrame

\* C9 as stated: in every state entry 511 of the top-level table the
\* table-base register designates holds that table's own frame.
C9_RecursiveSlotSelf == RecursiveSlot(cr3) = cr3

\* C9, amended: entry 511 of the table the register designates holds that
\* table's own frame except between the retargeting of the slot and the
\* write of the register; in between it holds the frame of the new table,
\* whose own entry 511 holds the new table's frame.
C9_RecursiveSlotSelfOutsideWindow ==
    IF pc \in RetargetWindow
    THEN /\ cr3 = old_p4
         /\ RecursiveSlot(cr3) = new_table_frame
         /\ new_table_frame # cr3
         /\ RecursiveSlot(new_table_frame) = new_table_frame
    ELSE RecursiveSlot(cr3) = cr3

\* the register was written while the old table's slot was retargeted
C9_Witness ==
    /\ pc = "unmap"
    /\ cr3 = new_table_frame
    /\ RecursiveSlot(old_p4) = new_table_frame

\* C10: once remap_kernel has completed, the page at the old top-level
\* table's frame is not mapped in the active hierarchy, and the unmap step
\* found it identity-mapped.
C10_OldRootUnmapped ==
    /\ [](pc \in AfterUnmap => Translate(tables, cr3, old_p4) = NotMapped)
    /\ [][(pc = "unmap" /\ pc' = "heap")
             => /\ Translate(tables, cr3, old_p4).addr = old_p4
                /\ PRESENT \in Translate(tables, cr3, old_p4).flags]_vars

\* remap_kernel has just returned and the heap is not mapped yet
C10_Witness ==
    /\ pc = "heap"
    /\ Running
    /\ cur = HeapStartPage
    /\ old_p4 = original_page_table_address

----------------------------------------------------------------------------
(* Stacks *)

\* the pages from the bottom of a returned stack up to its top
PagesOf(st) == FramesBetween(st.bottom, st.top - PAGE_SIZE)

\* C11: of two stacks returned one after the other, the mapped ranges do not
\* overlap, the later stack's bottom lies above the earlier stack's top, and
\* at least one whole page lies between that top and that bottom.
C11_StacksApart ==
    \A i, j \in DOMAIN stacks :
        (i < j /\ stacks[i].ok /\ stacks[j].ok)
            => /\ PagesOf(stacks[i]) \cap PagesOf(stacks[j]) = {}
               /\ stacks[j].bottom > stacks[i].top
               /\ stacks[j].bottom - stacks[i].top >= PAGE_SIZE
               /\ \A p \in PagesOf(stacks[i]) \cup PagesOf(stacks[j]) :
                      Translate(tables, cr3, p) # NotMapped

\* allocate_stack(1) and then allocate_stack(2) both returned a stack
C11_Witness ==
    /\ Len(stacks) = 2
    /\ stacks[1].ok /\ stacks[1].size = 1
    /\ stacks[2].ok /\ stacks[2].size = 2

\* C12: a call allocate_stack(0) returns no stack, and leaves the page
\* tables, the frame allocator and the stack allocator's range as they were.
C12_ZeroSizeRejected ==
    [][(Len(stacks') = Len(stacks) + 1 /\ stacks'[Len(stacks')].size = 0)
          => /\ ~stacks'[Len(stacks')].ok
             /\ tables' = tables
             /\ returned' = returned
             /\ next_free_frame' = next_free_frame
             /\ current_area' = current_area
             /\ range' = range]_vars

\* allocate_stack(0) was called after a stack had been returned
C12_Witness ==
    /\ Len(stacks) = 2
    /\ stacks[1].ok
    /\ stacks[2].size = 0

\* C13: the guard page directly below every returned stack is unmapped, and
\* it is a page of no returned stack and of no stack being mapped.
C13_GuardPagesUnmapped ==
    \A i \in DOMAIN stacks :
        stacks[i].ok
            => /\ stacks[i].guard = stacks[i].bottom - PAGE_SIZE
               /\ Translate(tables, cr3, stacks[i].guard) = NotMapped
               /\ \A j \in DOMAIN stacks :
                      stacks[j].ok => stacks[i].guard \notin PagesOf(stacks[j])
               /\ pc = "stack_map" => stacks[i].guard \notin StackPages

\* two stacks were returned, the second one's guard page directly above the
\* first stack
C13_Witness ==
    /\ Len(stacks) = 2
    /\ stacks[1].ok /\ stacks[2].ok
    /\ stacks[2].guard = stacks[1].top
    /\ stacks[2].size = 2
    /\ stacks[1].size = 2

\* the entries of table f that designate a table, as pairs of the index
\* path (base extended by the entry's index) and the table designated
EntriesBelow(t, base, f, skip) ==
    {<< base * ENTRY_COUNT + i, t[f][i].addr >> :
        i \in {j \in (DOMAIN t[f]) \ skip : t[f][j].addr \in DOMAIN t}}

\* the pages the hierarchy rooted at root maps, its recursive slot aside
MappedPages(t, root) ==
    UNION { UNION { UNION { {(e2[1] * ENTRY_COUNT + i) * PAGE_SIZE : i \in DOMAIN t[e2[2]]} :
                            e2 \in EntriesBelow(t, e3[1], e3[2], {}) } :
                    e3 \in EntriesBelow(t, e4[1], e4[2], {}) } :
            e4 \in EntriesBelow(t, 0, root, {RECURSIVE_INDEX}) }

\* the mapped pages of the range handed to the stack allocator
MappedStackPages ==
    {p \in MappedPages(tables, cr3) : StackRange.start <= p /\ p <= StackRange.end}

\* the pages the allocate_stack call in progress has mapped so far
PagesInProgress == IF pc = "stack_map" THEN {p \in StackPages : p < cur} ELSE {}

\* C14: a stack returned by allocate_stack(n), n >= 1, has its bottom at the
\* page directly above the guard page, which was the start of the range, its
\* top n pages above its bottom, and the range's start n + 1 pages further;
\* the pages mapped in the stack allocator's range are exactly the pages of
\* the returned stacks (and of the call in progress).
C14_StackShape ==
    /\ \A i \in DOMAIN stacks :
           stacks[i].ok
               => /\ stacks[i].size >= 1
                  /\ stacks[i].top > stacks[i].bottom
                  /\ stacks[i].top - stacks[i].bottom = stacks[i].size * PAGE_SIZE
                  /\ stacks[i].guard = stacks[i].range_before.start
                  /\ stacks[i].bottom = stacks[i].guard + PAGE_SIZE
                  /\ stacks[i].range_after.start
                         = stacks[i].range_before.start + (stacks[i].size + 1) * PAGE_SIZE
                  /\ stacks[i].range_after.end = stacks[i].range_before.end
    /\ controller
           => MappedStackPages
                  = UNION {PagesOf(stacks[i]) : i \in {j \in DOMAIN stacks : stacks[j].ok}}
                        \cup PagesInProgress

\* allocate_stack(2) returned the first stack
C14_Witness ==
    /\ pc = "ready"
    /\ Len(stacks) = 1
    /\ stacks[1].ok
    /\ stacks[1].size = 2
    /\ Cardinality(MappedStackPages) = 2

----------------------------------------------------------------------------
(* The frame allocator: order and exhaustion *)

\* the kernel or the boot information covers frame f
Reserved(f) ==
    \/ kernel_start <= f /\ f <= kernel_end
    \/ multiboot_start <= f /\ f <= multiboot_end

\* there is one memory area, of exactly two frames, none of them reserved
TwoSlotArea ==
    /\ Len(areas) = 1
    /\ IsAligned(areas[1].start)
    /\ areas[1].end = areas[1].start + 2 * PAGE_SIZE
    /\ ~Reserved(areas[1].start)
    /\ ~Reserved(areas[1].start + PAGE_SIZE)

\* the results of the calls are the area's first slot, its second slot, and
\* None from then on
BothSlotsThenNone ==
    \A i \in DOMAIN returned :
        returned[i] = IF i = 1 THEN areas[1].start
                      ELSE IF i = 2 THEN areas[1].start + PAGE_SIZE
                      ELSE NoFrame

\* C15 as stated: with a single area of two unreserved frames the calls
\* return the first slot, the second slot, then None.
C15_TwoSlotsThenExhausted == TwoSlotArea => BothSlotsThenNone

\* C15, amended: with a single area of two unreserved frames that does not
\* start at address 0 the calls return the first slot, the second slot, then
\* None; when the area starts at address 0 the first call returns the second
\* slot and every later call None.
C15_TwoSlotsUnlessFrameZero ==
    TwoSlotArea
        => IF areas[1].start # 0
           THEN BothSlotsThenNone
           ELSE \A i \in DOMAIN returned :
                    returned[i] = IF i = 1 THEN PAGE_SIZE ELSE NoFrame

\* three calls on a two-slot area above address 0
C15_Witness ==
    /\ TwoSlotArea
    /\ areas[1].start # 0
    /\ Len(returned) = 3
    /\ returned[3] = NoFrame

\* C16: once a call has returned None, every later call returns None and
\* leaves the cursor and the current area as they are.
C16_ExhaustionTerminal ==
    /\ [](\A i, j \in DOMAIN returned :
              (i < j /\ returned[i] = NoFrame) => returned[j] = NoFrame)
    /\ [][(returned # << >> /\ returned[Len(returned)] = NoFrame)
             => /\ returned' = Append(returned, NoFrame)
                /\ next_free_frame' = next_free_frame
                /\ current_area' = current_area]_vars

\* a call returned None after a frame had been handed out, and another call
\* followed
C16_Witness ==
    /\ Len(returned) >= 3
    /\ returned[1] # NoFrame
    /\ returned[Len(returned) - 1] = NoFrame
    /\ returned[Len(returned)] = NoFrame

\* C17: allocate_frame never returns the frame at physical address 0.
C17_NeverFrameZero == \A i \in DOMAIN returned : returned[i] # 0

\* an area starts at address 0, frame 0 is not reserved, and the first frame
\* handed out is the one at PAGE_SIZE
C17_Witness ==
    /\ \E a \in DOMAIN areas : areas[a].start = 0 /\ areas[a].end >= 2 * PAGE_SIZE
    /\ ~Reserved(0)
    /\ returned # << >>
    /\ returned[1] = PAGE_SIZE

----------------------------------------------------------------------------
(* The new address space at the switch *)

\* the frames holding a byte of a loaded section, of the VGA buffer's first
\* byte or of the boot information
ImagePages ==
    UNION { FramesBetween(ContainingAddress(sections[i].start),
                          ContainingAddress(sections[i].start + sections[i].size - 1)) :
            i \in {j \in DOMAIN sections : sections[j].allocated} }
      \cup {ContainingAddress(VGA_BUFFER)}
      \cup FramesBetween(ContainingAddress(boot_start), ContainingAddress(boot_end - 1))

\* the new hierarchy maps the image pages to themselves and nothing else, and
\* its recursive slot designates the new table
NewHierarchyComplete ==
    /\ MappedPages(tables, new_table_frame) = ImagePages
    /\ \A p \in ImagePages : Translate(tables, new_table_frame, p).addr = p
    /\ RecursiveSlot(new_table_frame) = new_table_frame

\* C18: the table-base register is written only by the step at the switch,
\* with the new table's frame, and at that step the new hierarchy holds the
\* identity mappings of every frame of every loaded section, of the VGA
\* frame and of every frame of the boot information, the recursive entry of
\* the new table, and no other mapping.
C18_SwitchOnCompleteHierarchy ==
    /\ []((pc = "switch" /\ Running) => NewHierarchyComplete)
    /\ [][cr3' # cr3
             => /\ pc = "switch"
                /\ NewHierarchyComplete
                /\ cr3' = new_table_frame]_vars

\* the register has just been written; the image has two sections and a boot
\* information of two frames
C18_Witness ==
    /\ pc = "unmap"
    /\ Running
    /\ cr3 = new_table_frame
    /\ cr3 # old_p4
    /\ Cardinality(AllocatedSections) = 2
    /\ Cardinality(MappedPages(tables, cr3)) >= 5

----------------------------------------------------------------------------
(* Failures of remap_kernel *)

\* the frames holding a byte of section i
SectionPages(i) ==
    FramesBetween(ContainingAddress(sections[i].start),
                  ContainingAddress(sections[i].start + sections[i].size - 1))

\* a loaded section starts off a frame boundary
MisalignedSection ==
    \E i \in DOMAIN sections :
        sections[i].allocated /\ sections[i].start % PAGE_SIZE # 0

\* two of the identity mappings remap_kernel requests target the same page
MappingCollision ==
    LET loaded == {i \in DOMAIN sections : sections[i].allocated}
        boot == FramesBetween(ContainingAddress(boot_start),
                              ContainingAddress(boot_end - 1))
        vga == ContainingAddress(VGA_BUFFER)
    IN  \/ \E i, j \in loaded : i # j /\ SectionPages(i) \cap SectionPages(j) # {}
        \/ \E i \in loaded : vga \in SectionPages(i) \/ boot \cap SectionPages(i) # {}
        \/ vga \in boot

\* C19: when a loaded section starts off a frame boundary, or two of the
\* requested identity mappings target the same page, remap_kernel panics,
\* nothing runs after the panic, and the table-base register is never
\* written: it designates the old table for ever.
C19_BadImageHalts ==
    /\ (MisalignedSection \/ MappingCollision)
           => ([](cr3 = old_p4) /\ <>(panic # "none"))
    /\ [](panic \in {"misaligned", "conflict"} => (cr3 = old_p4 /\ pc \in BeforeSwitch))
    /\ [][panic = "none"]_vars

\* the boot information lies in a frame of a loaded section, and its mapping
\* panicked on the conflict
C19_Witness ==
    /\ MappingCollision
    /\ ~MisalignedSection
    /\ panic = "conflict"
    /\ pc = "multiboot"

----------------------------------------------------------------------------
(* The frame allocator: which frames it hands out *)

\* frame f lies inside one of the memory areas
InsideAnArea(f) ==
    \E a \in DOMAIN areas : areas[a].start <= f /\ f + PAGE_SIZE <= areas[a].end

\* the frames up to the end of the highest memory area
FramesOfMemory ==
    {k * PAGE_SIZE : k \in 0..(Max({areas[a].end : a \in DOMAIN areas}) \div PAGE_SIZE)}

\* a call has returned None
Exhausted == \E i \in DOMAIN returned : returned[i] = NoFrame

\* the frames handed out are the lowest frames of the set S in ascending
\* order, and all of S once a call has returned None
IssuedAscendingFrom(S) ==
    /\ \A i \in DOMAIN Issued :
           /\ Issued[i] \in S
           /\ Cardinality({f \in S : f < Issued[i]}) = i - 1
    /\ Exhausted => Cardinality(S) = Len(Issued)

\* C20: every frame handed out lies inside a memory area, and the frames
\* handed out are, in ascending order and without a gap, the frames of the
\* areas other than frame 0 and the frames of the kernel and boot
\* information ranges.
C20_LowestEligibleFrame ==
    /\ \A i \in DOMAIN Issued : InsideAnArea(Issued[i])
    /\ IssuedAscendingFrom({f \in FramesOfMemory :
                               InsideAnArea(f) /\ f # 0 /\ ~Reserved(f)})

----------------------------------------------------------------------------
(* The frame allocator: rejected candidates *)

\* every call has a result and a number of rejected candidates
EveryCallReturned ==
    /\ Len(rejected) = Len(returned)
    /\ \A i \in DOMAIN returned : returned[i] = NoFrame \/ returned[i] >= PAGE_SIZE

\* C21 as stated: every allocate_frame call returns a frame or None after
\* rejecting at most as many candidates as there are memory areas.
C21_RejectsBoundedByAreas ==
    /\ EveryCallReturned
    /\ \A i \in DOMAIN rejected : rejected[i] <= Len(areas)

\* C21, amended: every allocate_frame call returns a frame or None after
\* rejecting at most two candidates more than there are memory areas: one
\* for each change of area, one for the kernel range and one for the boot
\* information range.
C21_RejectsBoundedByAreasPlusTwo ==
    /\ EveryCallReturned
    /\ \A i \in DOMAIN rejected : rejected[i] <= Len(areas) + 2

\* a call on a single area rejected a kernel frame, a boot information frame
\* and the end of the area before it returned None
C21_Witness ==
    /\ Len(areas) = 1
    /\ \E i \in DOMAIN rejected : rejected[i] = 3 /\ returned[i] = NoFrame

----------------------------------------------------------------------------
(* The heap window *)

\* the pages of [HEAP_START, HEAP_START + HEAP_SIZE)
HeapWindow == {HEAP_START + k * PAGE_SIZE : k \in 0..((HEAP_SIZE - 1) \div PAGE_SIZE)}

\* the pages the hierarchy rooted at root maps, each with its leaf entry
MappedLeaves(t, root) ==
    UNION { UNION { UNION { {<< (e2[1] * ENTRY_COUNT + i) * PAGE_SIZE, t[e2[2]][i] >> :
                                 i \in DOMAIN t[e2[2]]} :
                            e2 \in EntriesBelow(t, e3[1], e3[2], {}) } :
                    e3 \in EntriesBelow(t, e4[1], e4[2], {}) } :
            e4 \in EntriesBelow(t, 0, root, {RECURSIVE_INDEX}) }

\* the mapped pages of the heap window and of the page after it, each with
\* its leaf entry
MappedHeapLeaves ==
    {l \in MappedLeaves(tables, cr3) :
        HEAP_START <= l[1] /\ l[1] < HEAP_START + HEAP_SIZE + PAGE_SIZE}

\* the heap pages the heap step has mapped so far
HeapPagesDone ==
    IF pc \in BeforeSwitch \cup {"unmap"} THEN {}
    ELSE IF pc = "heap" THEN {p \in HeapWindow : p < cur}
    ELSE HeapWindow

\* the frames the allocator has issued
IssuedFrames == {returned[i] : i \in DOMAIN returned} \ {NoFrame}

\* C22: the heap window is 25 pages; the heap step maps them in increasing
\* order, each present and writable on its own newly issued frame, and no
\* page beyond them; the heap allocator is initialised only once all 25 are
\* mapped and the stack controller only after it; a heap step that fails
\* leaves both uninitialised.
C22_HeapMappedThenInitialised ==
    LET leaves == MappedHeapLeaves
    IN  /\ Cardinality(HeapWindow) = 25
        /\ {l[1] : l \in leaves} = HeapPagesDone
        /\ \A l \in leaves :
               /\ l[2].flags = {PRESENT, WRITABLE}
               /\ l[2].addr \in IssuedFrames
               /\ l[2].addr \notin DOMAIN tables
        /\ Cardinality({l[2].addr : l \in leaves}) = Cardinality(HeapPagesDone)
        /\ heap_inited => HeapPagesDone = HeapWindow
        /\ controller => heap_inited
        /\ (pc = "heap" /\ panic # "none") => (~heap_inited /\ ~controller)

\* the allocator ran out of frames after some heap pages had been mapped
C22_Witness ==
    /\ pc = "heap"
    /\ panic = "alloc"
    /\ cur > HEAP_START
    /\ cur < HEAP_START + HEAP_SIZE

----------------------------------------------------------------------------
(* A stack request the range cannot hold *)

\* number of pages left in a range
PagesLeft(r) == IF r.start <= r.end THEN (r.end - r.start) \div PAGE_SIZE + 1 ELSE 0

RECURSIVE PagesTaken(_, _)
\* pages the first k calls took from the range: size + 1 per success
PagesTaken(st, k) ==
    IF k = 0 THEN 0
    ELSE PagesTaken(st, k - 1) + (IF st[k].ok THEN st[k].size + 1 ELSE 0)

\* pages the call in its mapping loop has taken
PagesOfCall == IF pc = "stack_map" THEN stack_call.size + 1 ELSE 0

\* the step is a call of allocate_stack that returns None
StackCallFails == Len(stacks') = Len(stacks) + 1 /\ ~stacks'[Len(stacks')].ok

\* a call fails when its size is 0 or the range holds fewer than size + 1
\* pages, and in no other case; the successes have taken size + 1 pages each
\* out of the 101 pages after the heap window
RangeAccounting ==
    /\ \A i \in DOMAIN stacks :
           stacks[i].ok <=> /\ stacks[i].size >= 1
                            /\ PagesLeft(stacks[i].range_before) >= stacks[i].size + 1
    /\ controller =>
           /\ PagesTaken(stacks, Len(stacks)) + PagesOfCall + PagesLeft(range) = 101
           /\ range.end = HEAP_START + (24 + 101) * PAGE_SIZE

\* C23: when the remaining range holds fewer than size_in_pages + 1 pages,
\* allocate_stack returns None and leaves the page tables, the frame
\* allocator and the range as they were, so that a later request that fits
\* succeeds; the successful calls together take at most the 101 pages
\* reserved after the heap window.
C23_ShortRangeFailsCleanly ==
    /\ []RangeAccounting
    /\ [][StackCallFails =>
            /\ range' = range
            /\ tables' = tables
            /\ allocVars' = allocVars
            /\ pc' = pc /\ panic' = panic]_vars

\* a request of three pages failed on a range of three pages, the next
\* request of two pages succeeded and used the range up
C23_Witness ==
    \E i \in DOMAIN stacks :
        /\ i > 1 /\ i < Len(stacks)
        /\ stacks[i - 1].ok
        /\ ~stacks[i].ok /\ stacks[i].size = 3 /\ PagesLeft(stacks[i].range_before) = 3
        /\ stacks[i + 1].ok /\ stacks[i + 1].size = 2
        /\ PagesLeft(range) = 0

----------------------------------------------------------------------------
(* What the issued frames are used for *)

\* the tables one level below the tables of links, each with its index path
LinksBelow(links) == UNION { EntriesBelow(tables, e[1], e[2], {}) : e \in links }

\* the P3 tables of the new hierarchy, each with its index path
P3Links ==
    IF new_table_frame \in DOMAIN tables
    THEN EntriesBelow(tables, 0, new_table_frame, {RECURSIVE_INDEX})
    ELSE {}

\* the pages the new hierarchy maps, each with its leaf entry
NewLeaves ==
    IF new_table_frame \in DOMAIN tables THEN MappedLeaves(tables, new_table_frame) ELSE {}

\* the places where frames are in use: the new top-level table, the tables
\* linked from an entry of the new hierarchy, the backing of the mapped pages
FrameUses ==
    {<< "p4", 0, f >> : f \in {new_table_frame} \cap DOMAIN tables}
      \cup {<< "p3", e[1], e[2] >> : e \in P3Links}
      \cup {<< "p2", e[1], e[2] >> : e \in LinksBelow(P3Links)}
      \cup {<< "p1", e[1], e[2] >> : e \in LinksBelow(LinksBelow(P3Links))}
      \cup {<< "page", l[1], l[2].addr >> : l \in NewLeaves}

\* the pages of the stack allocator's range
StackWindow == FramesBetween(StackRange.start, StackRange.end)

----------------------------------------------------------------------------
(* The block address the drive is given *)

\* byte k of a block address
AddressByte(lba, k) == (lba \div (2 ^ (8 * k))) % 256

\* C25: when Disk::read writes the read command, the LBA-low register holds
\* bits 0-7 of the block address, the LBA-mid register bits 8-15, the
\* LBA-high register bits 16-23 and the drive register 0xE0 with bits 24-27.
C25_AddressInRegistersAtCommand ==
    command.command = READ_COMMAND =>
        /\ command.low = AddressByte(command.lba, 0)
        /\ command.mid = AddressByte(command.lba, 1)
        /\ command.high = AddressByte(command.lba, 2)
        /\ command.drive = 224 + (AddressByte(command.lba, 3) % 16)

====
